---- MODULE Spec2Model ----
(***************************************************************************)
(* Model of WineQualityTrainingAndPrediction.py: the S3 fetch/parse glue,  *)
(* the schema classifier, the model selector, the directory download, the  *)
(* predictor and the main script.                                          *)
(*                                                                         *)
(* Text is a sequence of tokens: a word (a run of characters that are      *)
(* neither whitespace, ';' nor '"'), a space, a semicolon, a double quote  *)
(* or a CRLF pair.  str.strip / str.replace / str.split act on tokens as   *)
(* they act on the characters.                                             *)
(*                                                                         *)
(* Calls into boto3 / Spark are external: each outcome the library can     *)
(* produce (return or raise) is an input of the step that makes the call.  *)
(* A Python value that may be None is a record with a "kind" field.        *)
(***************************************************************************)
EXTENDS Integers, Sequences, FiniteSets, TLC

\* ------------------------------------------------------------------ bounds
\* longest object body (in tokens) fed to fetch_dataframe_from_s3
MaxLen == 5
\* F1 scores are k / MaxScore for k in 0..MaxScore
MaxScore == 3
\* most pages the paginator yields, most objects per page
MaxPages == 2
MaxObjs == 2
\* most fields of a table given to grab_col_names, largest distinct count
MaxFields == 2
MaxDistinct == 3

\* ------------------------------------------------------------------- state
VARIABLES
  \* one call of fetch_dataframe_from_s3: its inputs and what it returned
  f_in, f_out,
  \* one call of grab_col_names: its inputs and what it returned
  g_in, g_out,
  \* download_directory_from_s3: the listing under the prefix (pages of
  \* objects), the position of the two loops, the local directories, the keys
  \* handed to download_file, the log and whether an exception left the call
  d_pages, d_pc, d_page, d_obj, d_dirs, d_attempted, d_log,
  \* evaluate_models: the tables, the position in the list of families, the
  \* locals best_f1_score and best_model, the validation F1 of each family
  \* evaluated so far, the cv.fit calls started, the log
  e_train, e_valid, e_pc, e_i, best_f1_score, best_model, e_scores, e_fits, e_log,
  \* one call of predict_new_data: its inputs and what it did
  p_in, p_out,
  \* the main script: sys.argv's flags, the position, the session, the two
  \* fetched tables and everything the run did, in order
  argv, m_pc, spark, train_df, valid_df, m_events

fetchVars == <<f_in, f_out>>
grabVars == <<g_in, g_out>>
downloadVars == <<d_pages, d_pc, d_page, d_obj, d_dirs, d_attempted, d_log>>
evalVars ==
  <<e_train, e_valid, e_pc, e_i, best_f1_score, best_model, e_scores, e_fits, e_log>>
predictVars == <<p_in, p_out>>
mainVars == <<argv, m_pc, spark, train_df, valid_df, m_events>>
vars == <<fetchVars, grabVars, downloadVars, evalVars, predictVars, mainVars>>

Idle == [kind |-> "Idle"]
Pending == [kind |-> "Pending"]

\* a component that a specification does not run
FetchIdle == f_in = Idle /\ f_out = Idle
GrabIdle == g_in = Idle /\ g_out = Idle
DownloadIdle ==
  /\ d_pages = <<>> /\ d_pc = "idle" /\ d_page = 0 /\ d_obj = 0
  /\ d_dirs = {} /\ d_attempted = <<>> /\ d_log = <<>>
EvalIdle ==
  /\ e_train = Idle /\ e_valid = Idle /\ e_pc = "idle" /\ e_i = 0
  /\ best_f1_score = 0 /\ best_model = Idle /\ e_scores = <<>> /\ e_fits = <<>>
  /\ e_log = <<>>
PredictIdle == p_in = Idle /\ p_out = Idle
MainIdle ==
  /\ argv = {} /\ m_pc = "idle" /\ spark = "idle" /\ train_df = Idle
  /\ valid_df = Idle /\ m_events = <<>>

\* ------------------------------------------------------------------ tokens
Space == " "
Semi == ";"
DQuote == "dquote"
CrLf == "crlf"
Words == {"pH", "quality"}
Alphabet == Words \cup {Space, Semi, DQuote, CrLf}

None == [kind |-> "None"]
IsNone(x) == x.kind = "None"

\* str.isspace for one token
IsSpace(c) == c \in {Space, CrLf}

RECURSIVE LStrip(_)
LStrip(s) == IF s # <<>> /\ IsSpace(Head(s)) THEN LStrip(Tail(s)) ELSE s

RECURSIVE RStrip(_)
RStrip(s) ==
  IF s # <<>> /\ IsSpace(s[Len(s)]) THEN RStrip(SubSeq(s, 1, Len(s) - 1)) ELSE s

\* str.strip()
strip(s) == RStrip(LStrip(s))

\* str.replace(old, new) for a one-token old; new is a token sequence
RECURSIVE replace(_, _, _)
replace(s, old, new) ==
  IF s = <<>> THEN <<>>
  ELSE (IF Head(s) = old THEN new ELSE <<Head(s)>>) \o replace(Tail(s), old, new)

\* str.split(sep): always at least one piece, ''.split(sep) = ['']
RECURSIVE split(_, _)
split(s, sep) ==
  IF s = <<>> THEN << <<>> >>
  ELSE LET r == split(Tail(s), sep)
       IN IF Head(s) = sep THEN << <<>> >> \o r
          ELSE << <<Head(s)>> \o Head(r) >> \o Tail(r)

\* [f(x) for x in xs]
RECURSIVE MapStrip(_)
MapStrip(xs) == IF xs = <<>> THEN <<>> ELSE <<strip(Head(xs))>> \o MapStrip(Tail(xs))

RECURSIVE SplitEach(_)
SplitEach(ls) ==
  IF ls = <<>> THEN <<>> ELSE <<split(Head(ls), Semi)>> \o SplitEach(Tail(ls))

\* [x for x in xs if x]
RECURSIVE NonEmpty(_)
NonEmpty(xs) ==
  IF xs = <<>> THEN <<>>
  ELSE (IF Head(xs) # <<>> THEN <<Head(xs)>> ELSE <<>>) \o NonEmpty(Tail(xs))

Range(s) == {s[i] : i \in DOMAIN s}

\* ------------------------------------------------------- data_transformations
\* attributes of a Python str that the program uses; df.columns is a list of str
StrMethods == {"strip", "replace", "split"}

\* the column names cast by the loop of data_transformations, and the label
float_cols ==
  << <<"fixed", "_", "acidity">>, <<"volatile", "_", "acidity">>,
     <<"citric", "_", "acid">>, <<"residual", "_", "sugar">>, <<"chlorides">>,
     <<"free", "_", "sulfur", "_", "dioxide">>,
     <<"total", "_", "sulfur", "_", "dioxide">>, <<"density">>, <<"pH">>,
     <<"sulphates">>, <<"alcohol">> >>
label_col == <<"quality">>

\* col.strip().replace(" ", "_")
NormalizeName(col) == replace(strip(col), Space, <<"_">>)

RECURSIVE MapNormalize(_)
MapNormalize(cols) ==
  IF cols = <<>> THEN <<>>
  ELSE <<NormalizeName(Head(cols))>> \o MapNormalize(Tail(cols))

\* withColumn(c, df[c].cast(t)) for each c of cs, in order; df[c] raises when
\* the frame has no column c
RECURSIVE CastAll(_, _, _)
CastAll(df, cs, t) ==
  IF cs = <<>> THEN [raised |-> FALSE, value |-> df]
  ELSE IF Head(cs) \notin Range(df.columns) THEN [raised |-> TRUE, value |-> None]
  ELSE CastAll([df EXCEPT !.dtypes =
                  [i \in DOMAIN df.columns |->
                     IF df.columns[i] = Head(cs) THEN t ELSE df.dtypes[i]]],
               Tail(cs), t)

\* lines 103-113 once the comprehension of line 103 has been evaluated: the
\* columns renamed, the float columns and the label cast
SelectAndCast(df) ==
  LET renamed == [df EXCEPT !.columns = MapNormalize(df.columns)]
      floats == CastAll(renamed, float_cols, "FloatType")
  IN IF floats.raised THEN floats
     ELSE CastAll(floats.value, <<label_col>>, "IntegerType")

\* data_transformations(df): the comprehension evaluates col.alias for every
\* element col of df.columns, each a str; a str has no attribute alias, so the
\* first element raises AttributeError
data_transformations(df) ==
  IF df.columns # <<>> /\ "alias" \notin StrMethods
  THEN [raised |-> TRUE, value |-> None]
  ELSE SelectAndCast(df)

\* the callables passed as fetch_dataframe_from_s3's third argument: the
\* program passes data_transformations; passthrough stands for any callable
\* that returns a frame
Transformations == {"data_transformations", "passthrough"}

CallTransformation(fn, df) ==
  IF fn = "data_transformations" THEN data_transformations(df)
  ELSE [raised |-> FALSE, value |-> df]

\* ---------------------------------------------------- fetch_dataframe_from_s3
\* outcomes of s3_client.get_object(...)['Body'].read().decode('utf-8')
S3Outcomes == {"ok", "get_raises", "decode_raises"}

\* dataframe.select(name).distinct().count() for the i-th column of the rows
DistinctCount(data_list, i) ==
  Cardinality({IF i <= Len(data_list[r]) THEN data_list[r][i] ELSE <<"null">> :
                 r \in DOMAIN data_list})

\* spark.createDataFrame(data_list, cleaned_columns): schema inference raises on
\* an empty data_list; otherwise the call returns (ok) or raises (not ok).
\* Every field of a row is a str, so every column is a StringType column.
\* The frame keeps, for each column, its name, its type and the number of
\* distinct values in it.
createDataFrame(data_list, cleaned_columns, ok) ==
  IF data_list = <<>> \/ ~ok THEN [raised |-> TRUE, value |-> None]
  ELSE [raised |-> FALSE,
        value |-> [kind |-> "DataFrame", columns |-> cleaned_columns,
                   dtypes |-> [i \in DOMAIN cleaned_columns |-> "StringType"],
                   distinct |-> [i \in DOMAIN cleaned_columns |->
                                   DistinctCount(data_list, i)]]]

\* lines 88-90: the rows of the text, the header first
ParseRows(text) ==
  SplitEach(NonEmpty(split(strip(replace(text, DQuote, <<>>)), CrLf)))

\* lines 94-96 for a frame that was built or not: the transformation is called
\* on the frame and its value returned
TryTransformation(df, fn) ==
  IF df.raised THEN [raised |-> TRUE, step |-> "createDataFrame", value |-> None]
  ELSE IF CallTransformation(fn, df.value).raised
  THEN [raised |-> TRUE, step |-> "transformation", value |-> None]
  ELSE [raised |-> FALSE, step |-> "return",
        value |-> CallTransformation(fn, df.value).value]

\* lines 90-96 for the parsed rows: pop(0) raises IndexError on an empty list
TryRows(data_list, createOk, fn) ==
  IF data_list = <<>> THEN [raised |-> TRUE, step |-> "parse", value |-> None]
  ELSE TryTransformation(
         createDataFrame(Tail(data_list), MapStrip(Head(data_list)), createOk), fn)

\* the body of the try block: which step raised (if any) and the value
\* reached by the return statement.  The step that raised decides the
\* exception, whose text ends the error line.
FetchTry(s3, text, createOk, fn) ==
  IF s3 # "ok" THEN [raised |-> TRUE, step |-> s3, value |-> None]
  ELSE TryRows(ParseRows(text), createOk, fn)

\* line 98: logger.error(f"Error fetching data from S3: {e}")
FetchErrorLine(step) == <<"ERROR Error fetching data from S3", step>>

\* the try statement with the call of the transformation moved after it: what
\* the transformation raises leaves the function
ExceptAllButTransformation(r) ==
  IF r.raised /\ r.step = "transformation"
  THEN [value |-> None, log |-> <<>>, escaped |-> TRUE, step |-> r.step]
  ELSE IF r.raised
  THEN [value |-> None, log |-> <<FetchErrorLine(r.step)>>, escaped |-> FALSE,
        step |-> r.step]
  ELSE [value |-> r.value, log |-> <<>>, escaped |-> FALSE, step |-> r.step]

\* lines 97-99: except Exception turns every raise of the body r into an error
\* log line and a None result
ExceptException(r) ==
  IF r.raised
  THEN [value |-> None, log |-> <<FetchErrorLine(r.step)>>, escaped |-> FALSE,
        step |-> r.step]
  ELSE [value |-> r.value, log |-> <<>>, escaped |-> FALSE, step |-> r.step]

\* fetch_dataframe_from_s3(key, spark, data_transformations)
fetch_dataframe_from_s3(s3, text, createOk, fn) ==
  ExceptException(FetchTry(s3, text, createOk, fn))

\* all object bodies of at most n tokens
Texts(n) == UNION {[1..k -> Alphabet] : k \in 0..n}

\* what the object store answers for one key: a failure, or a body
S3Replies(n) ==
  {[s3 |-> o, text |-> <<>>] : o \in S3Outcomes \ {"ok"}}
    \cup {[s3 |-> "ok", text |-> t] : t \in Texts(n)}


\* ------------------------------------------------ fetch_dataframe_from_s3 runs
FetchInputs(n) ==
  {[reply |-> r, createOk |-> c, fn |-> fn] :
     r \in S3Replies(n), c \in BOOLEAN, fn \in Transformations}

FetchInit ==
  /\ f_in \in FetchInputs(MaxLen) /\ f_out = Pending
  /\ GrabIdle /\ DownloadIdle /\ EvalIdle /\ PredictIdle /\ MainIdle

\* one call of fetch_dataframe_from_s3
Fetch ==
  /\ f_out = Pending
  /\ f_out' = [kind |-> "Returned",
               r |-> fetch_dataframe_from_s3(f_in.reply.s3, f_in.reply.text,
                                             f_in.createOk, f_in.fn)]
  /\ UNCHANGED <<f_in, grabVars, downloadVars, evalVars, predictVars, mainVars>>

FetchNext == Fetch
SpecFetch == FetchInit /\ [][FetchNext]_vars

\* every step of the call succeeded: the object was retrieved and decoded, the
\* text has a header row, the frame was built and the transformation returned
AllStepsOk(in) ==
  /\ in.reply.s3 = "ok"
  /\ LET rows == ParseRows(in.reply.text)
     IN /\ Len(rows) >= 2
        /\ in.createOk
        /\ ~CallTransformation(
              in.fn, createDataFrame(Tail(rows), MapStrip(Head(rows)), TRUE).value
            ).raised

\* C2: fetch_dataframe_from_s3 never lets an exception escape; when a step
\* fails it logs an error and returns None; it returns a frame only when the
\* retrieval, the parsing, the frame construction and the transformation all
\* succeeded.
C2_FetchNeverRaises ==
  f_out.kind = "Returned" =>
    /\ ~f_out.r.escaped
    /\ (~AllStepsOk(f_in) => IsNone(f_out.r.value) /\ Len(f_out.r.log) = 1)
    /\ (~IsNone(f_out.r.value) => AllStepsOk(f_in) /\ f_out.r.log = <<>>)

\* a transformation that raised inside the call, caught and logged
C2_Witness ==
  /\ f_out.kind = "Returned"
  /\ f_in.reply.s3 = "ok" /\ f_in.createOk /\ Len(ParseRows(f_in.reply.text)) >= 2
  /\ f_in.fn = "data_transformations"
  /\ IsNone(f_out.r.value) /\ Len(f_out.r.log) = 1 /\ ~f_out.r.escaped

PairwiseDistinct(s) == \A i, j \in DOMAIN s : i # j => s[i] # s[j]

\* no leading or trailing whitespace and no space
CleanName(n) == n = strip(n) /\ Space \notin Range(n)

\* a retrievable object whose text is a header row of pairwise distinct names
\* followed by data rows of as many fields
WellFormedDistinctHeader(in) ==
  /\ in.reply.s3 = "ok" /\ in.createOk
  /\ LET rows == ParseRows(in.reply.text)
     IN /\ Len(rows) >= 2
        /\ PairwiseDistinct(Head(rows))
        /\ \A i \in 2..Len(rows) : Len(rows[i]) = Len(Head(rows))

\* C10: for a header row of pairwise distinct raw names, fetch_dataframe_from_s3
\* with data_transformations produces a typed table whose column names are
\* pairwise distinct, have no surrounding whitespace and contain no space.
C10_NormalizedNames ==
  (/\ f_out.kind = "Returned"
   /\ f_in.fn = "data_transformations"
   /\ WellFormedDistinctHeader(f_in)) =>
    /\ ~IsNone(f_out.r.value)
    /\ PairwiseDistinct(f_out.r.value.columns)
    /\ \A i \in DOMAIN f_out.r.value.columns : CleanName(f_out.r.value.columns[i])

\* --------------------------------------------------------------- grab_col_names
\* str(field.dataType): the class name up to PySpark 3.2, the repr with
\* parentheses from PySpark 3.3 on
ReprStyles == {"name", "call"}
DataTypes == {"StringType", "IntegerType", "FloatType"}
TypeStr(dataType, style) ==
  IF style = "name" THEN <<dataType>> ELSE <<dataType, "()">>

\* [x for i, x in enumerate(xs) if keep[i]]
RECURSIVE SelectWhere(_, _, _)
SelectWhere(xs, keep, i) ==
  IF i > Len(xs) THEN <<>>
  ELSE (IF keep[i] THEN <<xs[i]>> ELSE <<>>) \o SelectWhere(xs, keep, i + 1)

\* lines 36-49 given, for each non-textual column, whether the elif at line 44
\* took it (low): the three lists built by the loop, then cat_cols and num_cols
Classify(dataframe, car_th, style, low) ==
  LET names == dataframe.columns
      isString == [i \in DOMAIN names |->
                     TypeStr(dataframe.dtypes[i], style) = <<"StringType">>]
      cat_but_car == SelectWhere(names,
                       [i \in DOMAIN names |->
                          isString[i] /\ dataframe.distinct[i] > car_th], 1)
      cat_cols == SelectWhere(names,
                    [i \in DOMAIN names |->
                       isString[i] /\ ~(dataframe.distinct[i] > car_th)], 1)
      num_but_cat == SelectWhere(names,
                       [i \in DOMAIN names |-> ~isString[i] /\ low[i]], 1)
      num_cols == SelectWhere(names,
                    [i \in DOMAIN names |->
                       ~isString[i] /\ names[i] \notin Range(num_but_cat)], 1)
  IN [raised |-> FALSE,
      cat_cols |-> Range(cat_cols) \ Range(cat_but_car),
      num_cols |-> num_cols,
      cat_but_car |-> cat_but_car]

\* grab_col_names with the low-cardinality test written <= instead of <
grab_col_names_le(dataframe, cat_th, car_th, style) ==
  IF IsNone(dataframe) THEN [raised |-> TRUE, cat_cols |-> {}, num_cols |-> <<>>,
                             cat_but_car |-> <<>>]
  ELSE Classify(dataframe, car_th, style,
                [i \in DOMAIN dataframe.columns |-> dataframe.distinct[i] <= cat_th])

\* grab_col_names that answers three empty lists for a missing table
grab_col_names_none_ok(dataframe, cat_th, car_th, style) ==
  IF IsNone(dataframe) THEN [raised |-> FALSE, cat_cols |-> {}, num_cols |-> <<>>,
                             cat_but_car |-> <<>>]
  ELSE Classify(dataframe, car_th, style,
                [i \in DOMAIN dataframe.columns |-> dataframe.distinct[i] < cat_th])

\* grab_col_names(dataframe, cat_th, car_th) under a PySpark of the given
\* repr style.  dataframe.schema on None raises AttributeError.  cat_cols is
\* returned as list(set(...)): a set, its order is not determined.
grab_col_names(dataframe, cat_th, car_th, style) ==
  IF IsNone(dataframe) THEN [raised |-> TRUE, cat_cols |-> {}, num_cols |-> <<>>,
                             cat_but_car |-> <<>>]
  ELSE Classify(dataframe, car_th, style,
                [i \in DOMAIN dataframe.columns |-> dataframe.distinct[i] < cat_th])

\* ------------------------------------------------------- grab_col_names runs
\* the names of the columns of the tables tried: pairwise distinct, as in a
\* frame whose columns can be selected by name
ColumnName(i) == [k \in 1..i |-> "c"]
Thresholds == 0..(MaxDistinct + 1)

Tables(m) ==
  UNION {
    {[kind |-> "DataFrame",
      columns |-> [i \in 1..n |-> ColumnName(i)],
      dtypes |-> t, distinct |-> d] :
       t \in [1..n -> DataTypes], d \in [1..n -> 0..MaxDistinct]} :
    n \in 0..m}

GrabInit ==
  /\ g_in \in {[dataframe |-> df, cat_th |-> a, car_th |-> b, style |-> st] :
                 df \in Tables(MaxFields) \cup {None}, a \in Thresholds, b \in Thresholds,
                 st \in ReprStyles}
  /\ g_out = Pending
  /\ FetchIdle /\ DownloadIdle /\ EvalIdle /\ PredictIdle /\ MainIdle

\* one call of grab_col_names
Grab ==
  /\ g_out = Pending
  /\ g_out' = [kind |-> "Returned",
               r |-> grab_col_names(g_in.dataframe, g_in.cat_th, g_in.car_th,
                                    g_in.style)]
  /\ UNCHANGED <<g_in, fetchVars, downloadVars, evalVars, predictVars, mainVars>>

GrabNext == Grab
SpecGrab == GrabInit /\ [][GrabNext]_vars

\* C5: a non-textual column with fewer than cat_th distinct values is in none
\* of the three returned sets; a non-textual column with at least cat_th
\* distinct values is in the numeric set; the three sets are pairwise disjoint.
C5_LowCardinalityNumericExcluded ==
  (g_out.kind = "Returned" /\ ~g_out.r.raised) =>
    LET df == g_in.dataframe
        cat == g_out.r.cat_cols
        num == Range(g_out.r.num_cols)
        car == Range(g_out.r.cat_but_car)
    IN /\ \A i \in DOMAIN df.columns :
            df.dtypes[i] # "StringType" =>
              IF df.distinct[i] < g_in.cat_th
              THEN df.columns[i] \notin cat \cup num \cup car
              ELSE df.columns[i] \in num
       /\ cat \cap num = {} /\ cat \cap car = {} /\ num \cap car = {}

\* a table with a low-cardinality numeric column beside a numeric column that
\* has exactly cat_th distinct values, classified
C5_Witness ==
  /\ g_out.kind = "Returned" /\ ~g_out.r.raised
  /\ \E i, j \in DOMAIN g_in.dataframe.columns :
       /\ g_in.dataframe.dtypes[i] # "StringType"
       /\ g_in.dataframe.distinct[i] < g_in.cat_th
       /\ g_in.dataframe.columns[i] \notin Range(g_out.r.num_cols)
       /\ g_in.dataframe.dtypes[j] # "StringType"
       /\ g_in.dataframe.distinct[j] = g_in.cat_th
       /\ g_in.dataframe.columns[j] \in Range(g_out.r.num_cols)

\* --------------------------------------------------- download_directory_from_s3
\* the local directories os.path.dirname(local_file_path) can name
Dirs == {"bestmodel", "bestmodel/metadata"}

\* an object of the listing: its key (page, position) and the directory of its
\* local path
Objects(p) == {[key |-> <<p, i>>, dir |-> d] : i \in 1..MaxObjs, d \in Dirs}

\* page p of a listing: page.get('Contents', []), its objects in order
PagesAt(p) ==
  UNION {{pg \in [1..n -> Objects(p)] : \A i \in 1..n : pg[i].key = <<p, i>>} :
           n \in 0..MaxObjs}

\* the listings of at most MaxPages pages; list_objects_v2 answers at least one
Listings(m) ==
  UNION {{l \in [1..n -> UNION {PagesAt(p) : p \in 1..n}] :
            \A p \in 1..n : l[p] \in PagesAt(p)} : n \in 1..m}

RECURSIVE KeysOf(_)
KeysOf(pg) == IF pg = <<>> THEN <<>> ELSE <<Head(pg).key>> \o KeysOf(Tail(pg))

\* the keys of the listing in the order the two loops visit them
RECURSIVE FlatKeys(_)
FlatKeys(pages) ==
  IF pages = <<>> THEN <<>> ELSE KeysOf(Head(pages)) \o FlatKeys(Tail(pages))

\* a log line: the call it reports and, for download_file, the object's key
NoKey == <<0, 0>>
ErrorLine(call, key) ==
  [level |-> "ERROR", msg |-> "Error downloading files from S3", call |-> call,
   key |-> key]
InfoLine(key) ==
  [level |-> "INFO", msg |-> "Downloaded", call |-> "download_file", key |-> key]

\* where control goes when a statement inside the loops raises, with the try
\* statement placed inside the inner loop: the next object
ExceptInsideLoop == "objects"

\* where control goes when a statement inside the loops raises: the except
\* clause belongs to the try around both loops, so the function returns
ExceptTarget == "returned"

DownloadInit ==
  /\ d_pages \in Listings(MaxPages) /\ d_pc = "listing" /\ d_page = 0 /\ d_obj = 0
  /\ d_dirs \in SUBSET Dirs /\ d_attempted = <<>> /\ d_log = <<>>
  /\ FetchIdle /\ GrabIdle /\ EvalIdle /\ PredictIdle /\ MainIdle

\* the outer loop asks the paginator for the next page: the request returns or
\* raises
NextPage ==
  /\ d_pc = "listing" /\ d_page < Len(d_pages)
  /\ \E ok \in BOOLEAN :
       IF ok
       THEN /\ d_page' = d_page + 1 /\ d_obj' = 1 /\ d_pc' = "objects"
            /\ UNCHANGED d_log
       ELSE /\ d_pc' = "returned" /\ d_log' = Append(d_log, ErrorLine("paginate", NoKey))
            /\ UNCHANGED <<d_page, d_obj>>
  /\ UNCHANGED <<d_pages, d_dirs, d_attempted>>
  /\ UNCHANGED <<fetchVars, grabVars, evalVars, predictVars, mainVars>>

\* the paginator is exhausted: the function returns
EndOfListing ==
  /\ d_pc = "listing" /\ d_page = Len(d_pages)
  /\ d_pc' = "returned"
  /\ UNCHANGED <<d_pages, d_page, d_obj, d_dirs, d_attempted, d_log>>
  /\ UNCHANGED <<fetchVars, grabVars, evalVars, predictVars, mainVars>>

\* the inner loop is done with the page
EndOfPage ==
  /\ d_pc = "objects" /\ d_obj > Len(d_pages[d_page])
  /\ d_pc' = "listing"
  /\ UNCHANGED <<d_pages, d_page, d_obj, d_dirs, d_attempted, d_log>>
  /\ UNCHANGED <<fetchVars, grabVars, evalVars, predictVars, mainVars>>

\* the body of the inner loop for one object: makedirs when the directory is
\* missing (returns or raises), then download_file (returns or raises), then the
\* info line
DownloadObject ==
  /\ d_pc = "objects" /\ d_obj <= Len(d_pages[d_page])
  /\ LET obj == d_pages[d_page][d_obj]
     IN \E mkOk \in BOOLEAN, dlOk \in BOOLEAN :
          IF obj.dir \notin d_dirs /\ ~mkOk
          THEN /\ d_log' = Append(d_log, ErrorLine("makedirs", NoKey))
               /\ d_pc' = ExceptTarget
               /\ d_obj' = d_obj + 1
               /\ UNCHANGED <<d_dirs, d_attempted>>
          ELSE /\ d_dirs' = d_dirs \cup {obj.dir}
               /\ d_attempted' = Append(d_attempted, obj.key)
               /\ d_obj' = d_obj + 1
               /\ IF dlOk
                  THEN d_log' = Append(d_log, InfoLine(obj.key)) /\ d_pc' = "objects"
                  ELSE d_log' = Append(d_log, ErrorLine("download_file", obj.key)) /\ d_pc' = ExceptTarget
  /\ UNCHANGED <<d_pages, d_page>>
  /\ UNCHANGED <<fetchVars, grabVars, evalVars, predictVars, mainVars>>

DownloadNext == NextPage \/ EndOfListing \/ EndOfPage \/ DownloadObject
SpecDownload == DownloadInit /\ [][DownloadNext]_vars

IsPrefix(a, b) == Len(a) <= Len(b) /\ a = SubSeq(b, 1, Len(a))
Last(q) == q[Len(q)]
Errors(log) == {i \in DOMAIN log : log[i].level = "ERROR"}

\* C4 as stated: when listing and makedirs did not fail, every listed object is
\* attempted whatever download failed.
C4_EveryObjectAttempted ==
  (/\ d_pc = "returned"
   /\ \A i \in Errors(d_log) : d_log[i].call = "download_file") =>
    Range(d_attempted) = Range(FlatKeys(d_pages))

\* C4 amended: the first failure is logged and ends the copy.  The objects
\* attempted are the listed objects, in listing order, up to and including the
\* first whose download failed: an error line is the last line of the log, the
\* function has returned when there is one, and every object attempted before
\* it was downloaded.  With no failure every listed object is attempted.
C4_FirstFailureEndsCopy ==
  /\ IsPrefix(d_attempted, FlatKeys(d_pages))
  /\ \A i \in Errors(d_log) :
       /\ i = Len(d_log) /\ d_pc = "returned"
       /\ d_log[i].call = "download_file" => d_log[i].key = Last(d_attempted)
  /\ (d_pc = "returned" /\ Errors(d_log) = {}) => d_attempted = FlatKeys(d_pages)

\* a download failed while listed objects were still to come, and the function
\* returned without attempting them
C4_Witness ==
  /\ d_pc = "returned"
  /\ Errors(d_log) # {} /\ Last(d_log).call = "download_file"
  /\ Last(d_log).key = Last(d_attempted)
  /\ Len(d_attempted) < Len(FlatKeys(d_pages))
  /\ d_page < Len(d_pages)

\* -------------------------------------------------------------- evaluate_models
\* get_decision_tree_params: the two families in order, each with its grid
\* (regParam and elasticNetParam in thousandths)
get_decision_tree_params ==
  << [name |-> "LR",
      grid |-> {<<"maxIter", a, "regParam", b, "elasticNetParam", c>> :
                  a \in {10, 20, 50}, b \in {10, 100, 500}, c \in {0, 500, 1000}}],
     [name |-> "DT",
      grid |-> {<<"maxDepth", a, "maxBins", b, "impurity", c>> :
                  a \in {3, 5, 10}, b \in {20, 40, 60}, c \in {"entropy", "gini"}}] >>

\* an F1 score k stands for k / MaxScore
Scores == 0..MaxScore

\* what the engine can answer in one iteration: cv.fit returns or raises, the
\* grid point of cv_model.bestModel, transform/evaluate return or raise, the F1
Outcomes(fam) ==
  [fitOk : BOOLEAN, params : fam.grid, scoreOk : BOOLEAN, f1_score : Scores]

\* the test of line 79 written without the comparison: the last family wins
Improves_always(f1_score, best) == TRUE

\* line 79: f1_score > best_f1_score
Improves(f1_score, best) == f1_score > best

\* line 72: the locals before the loop
EvalStart ==
  [pc |-> "loop", best_f1_score |-> 0, best_model |-> None, scores |-> <<>>,
   fits |-> <<>>, log |-> <<>>]

\* lines 78-81 with the F1 obtained: the score is kept when it improves
Score(st, fam, o) ==
  IF Improves(o.f1_score, st.best_f1_score)
  THEN [st EXCEPT
          !.scores = Append(st.scores, o.f1_score),
          !.best_f1_score = o.f1_score,
          !.best_model = [kind |-> "PipelineModel", family |-> fam.name,
                          params |-> o.params],
          !.log = Append(st.log, <<"INFO", fam.name, "Best F1 Score", o.f1_score>>)]
  ELSE [st EXCEPT !.scores = Append(st.scores, o.f1_score)]

\* lines 75-81, one iteration: cv.fit is started on train_data and raises on a
\* missing table; cv_model.transform raises on a missing valid_data
EvalIteration(st, train_data, valid_data, fam, o) ==
  IF IsNone(train_data) \/ ~o.fitOk \/ IsNone(valid_data) \/ ~o.scoreOk
  THEN [st EXCEPT !.fits = Append(st.fits, fam.name), !.pc = "raised"]
  ELSE Score([st EXCEPT !.fits = Append(st.fits, fam.name)], fam, o)

RECURSIVE EvalLoop(_, _, _, _, _)
EvalLoop(st, train_data, valid_data, fams, outs) ==
  IF fams = <<>> \/ st.pc = "raised" THEN st
  ELSE EvalLoop(EvalIteration(st, train_data, valid_data, Head(fams), Head(outs)),
                train_data, valid_data, Tail(fams), Tail(outs))

\* line 83 after the loop: return best_model, unless the loop raised
ReturnBest(st) == IF st.pc = "raised" THEN st ELSE [st EXCEPT !.pc = "returned"]

\* evaluate_models(train_data, valid_data, featuresCol, labelCol) as one call,
\* outs[i] being what the engine answers in iteration i; featuresCol only
\* names the assembler's input columns
evaluate_models(train_data, valid_data, featuresCol, outs) ==
  ReturnBest(EvalLoop(EvalStart, train_data, valid_data, get_decision_tree_params,
                      outs))

\* a table handed to evaluate_models
SomeTable ==
  [kind |-> "DataFrame", columns |-> <<label_col>>, dtypes |-> <<"IntegerType">>,
   distinct |-> <<1>>]

EvalInit ==
  /\ e_train \in {SomeTable, None} /\ e_valid \in {SomeTable, None}
  /\ e_pc = EvalStart.pc /\ e_i = 0
  /\ best_f1_score = EvalStart.best_f1_score /\ best_model = EvalStart.best_model
  /\ e_scores = EvalStart.scores /\ e_fits = EvalStart.fits /\ e_log = EvalStart.log
  /\ FetchIdle /\ GrabIdle /\ DownloadIdle /\ PredictIdle /\ MainIdle

\* the locals of evaluate_models after an iteration
SetLocals(st) ==
  /\ e_pc' = st.pc /\ best_f1_score' = st.best_f1_score
  /\ best_model' = st.best_model /\ e_scores' = st.scores
  /\ e_fits' = st.fits /\ e_log' = st.log

\* one iteration of the loop over the families
EvaluateFamily ==
  /\ e_pc = "loop" /\ e_i < Len(get_decision_tree_params)
  /\ \E o \in Outcomes(get_decision_tree_params[e_i + 1]) :
       SetLocals(EvalIteration(
                   [pc |-> e_pc, best_f1_score |-> best_f1_score,
                    best_model |-> best_model, scores |-> e_scores,
                    fits |-> e_fits, log |-> e_log],
                   e_train, e_valid, get_decision_tree_params[e_i + 1], o))
  /\ e_i' = e_i + 1
  /\ UNCHANGED <<e_train, e_valid>>
  /\ UNCHANGED <<fetchVars, grabVars, downloadVars, predictVars, mainVars>>

\* line 83: return best_model
EvalReturn ==
  /\ e_pc = "loop" /\ e_i = Len(get_decision_tree_params)
  /\ e_pc' = "returned"
  /\ UNCHANGED <<e_train, e_valid, e_i, best_f1_score, best_model, e_scores,
                 e_fits, e_log>>
  /\ UNCHANGED <<fetchVars, grabVars, downloadVars, predictVars, mainVars>>

EvalNext == EvaluateFamily \/ EvalReturn
SpecEval == EvalInit /\ [][EvalNext]_vars

\* C6: the tracked best F1 never decreases from one family to the next, and
\* after each family it is at least the validation F1 of every family
\* evaluated so far.
C6_BestNeverDecreases ==
  [][/\ best_f1_score' >= best_f1_score
     /\ \A i \in DOMAIN e_scores' : best_f1_score' >= e_scores'[i]]_vars

\* both families evaluated, the second scoring below the first
C6_Witness ==
  /\ e_pc = "returned" /\ Len(e_scores) = 2
  /\ e_scores[2] < e_scores[1] /\ best_f1_score = e_scores[1]

\* C7: for every pair of validation F1 scores, 0 included, evaluate_models
\* returns a fitted pipeline, never None: the best model of the family with the
\* highest F1, the earlier family (LR) on a tie.
C7_ReturnsBestPipeline ==
  e_pc = "returned" =>
    /\ ~IsNone(best_model)
    /\ best_model.family = (IF e_scores[2] > e_scores[1] THEN "DT" ELSE "LR")

\* ------------------------------------------------------------- predict_new_data
\* longest object body (in tokens) the main script and predict_new_data fetch
MaxRunLen == 3

\* the metricName of the four evaluators, in order, with the label logged
Metrics ==
  << <<"f1", "F1 Score">>, <<"accuracy", "Accuracy">>,
     <<"precision", "Precision">>, <<"recall", "Recall">> >>

\* what the engine can answer: best_model.transform, predictions.show and each
\* evaluator.evaluate return or raise
PredictOutcomes ==
  [transformOk : BOOLEAN, showOk : BOOLEAN, metricOk : [DOMAIN Metrics -> BOOLEAN]]

\* what one call of fetch_dataframe_from_s3 on key does, as events
FetchEvents(key, f) == << <<"get_object", key>> >> \o f.log

\* e followed by what r did
Then(e, r) == [events |-> e \o r.events, raised |-> r.raised]
Raised(e) == [events |-> e, raised |-> TRUE]
Returned(e) == [events |-> e, raised |-> FALSE]

\* lines 127-141 from the i-th evaluator on: evaluate, then the info line
RECURSIVE LogMetrics(_, _)
LogMetrics(i, metricOk) ==
  IF i > Len(Metrics) THEN Returned(<<>>)
  ELSE IF ~metricOk[i] THEN Raised(<<>>)
  ELSE Then(<< <<"INFO", Metrics[i][2]>> >>, LogMetrics(i + 1, metricOk))

\* lines 121-141: select and drop the label, apply the pipeline (a missing
\* best_model raises AttributeError), show, join, the four metrics
PredictBody(new_df, model, o) ==
  IF label_col \notin Range(new_df.columns) THEN Raised(<<>>)
  ELSE IF IsNone(model) \/ ~o.transformOk THEN Raised(<<>>)
  ELSE IF ~o.showOk THEN Raised(<< <<"best_model.transform", "">> >>)
  ELSE Then(<< <<"best_model.transform", "">>, <<"predictions.show", "">> >>,
            LogMetrics(1, o.metricOk))

\* lines 117-141 for the value f that the fetch of line 116 returned
PredictFetched(f, model, o) ==
  IF IsNone(f.value)
  THEN Returned(FetchEvents("TestDataset.csv", f)
                  \o << <<"ERROR", "Failed to fetch new data for prediction.">> >>)
  ELSE Then(FetchEvents("TestDataset.csv", f), PredictBody(f.value, model, o))

\* predict_new_data(new_data_path, spark, best_model)
predict_new_data(reply, createOk, model, o) ==
  PredictFetched(
    fetch_dataframe_from_s3(reply.s3, reply.text, createOk, "data_transformations"),
    model, o)

\* a fitted pipeline, as PipelineModel.load or evaluate_models returns it
SomeModel ==
  [kind |-> "PipelineModel", family |-> "LR",
   params |-> <<"maxIter", 10, "regParam", 10, "elasticNetParam", 0>>]

PredictInit ==
  /\ p_in \in {[reply |-> r, createOk |-> c, best_model |-> bm] :
                 r \in S3Replies(MaxRunLen), c \in BOOLEAN, bm \in {SomeModel, None}}
  /\ p_out = Pending
  /\ FetchIdle /\ GrabIdle /\ DownloadIdle /\ EvalIdle /\ MainIdle

\* one call of predict_new_data
Predict ==
  /\ p_out = Pending
  /\ \E o \in PredictOutcomes :
       p_out' = [kind |-> "Returned",
                 r |-> predict_new_data(p_in.reply, p_in.createOk, p_in.best_model, o)]
  /\ UNCHANGED <<p_in, fetchVars, grabVars, downloadVars, evalVars, mainVars>>

PredictNext == Predict
SpecPredict == PredictInit /\ [][PredictNext]_vars

EventKinds(events) == {events[i][1] : i \in DOMAIN events}
\* the events of the given kinds, in order
RECURSIVE Only(_, _)
Only(events, kinds) ==
  IF events = <<>> THEN <<>>
  ELSE (IF Head(events)[1] \in kinds THEN <<Head(events)>> ELSE <<>>)
         \o Only(Tail(events), kinds)

\* the new data is there: the object is retrieved and decoded, its text has a
\* header row and at least one data row, and the frame is built
NewDataAvailable(in) ==
  in.reply.s3 = "ok" /\ in.createOk /\ Len(ParseRows(in.reply.text)) >= 2

default_cat_th == 10
default_car_th == 20

Flags == {"--train", "--predict"}

RECURSIVE FitEvents(_)
FitEvents(fits) ==
  IF fits = <<>> THEN <<>> ELSE << <<"cv.fit", Head(fits)>> >> \o FitEvents(Tail(fits))

\* lines 163-166 for what evaluate_models did: best_model.write() on None
\* raises AttributeError; save returns or raises
SaveBest(r, saveOk) ==
  IF r.pc = "raised" \/ IsNone(r.best_model) THEN Raised(FitEvents(r.fits))
  ELSE IF ~saveOk
  THEN Raised(FitEvents(r.fits) \o << <<"save", "s3://winequalityapp26/bestmodel">> >>)
  ELSE Returned(FitEvents(r.fits)
                  \o << <<"save", "s3://winequalityapp26/bestmodel">>,
                        <<"INFO", "Best model saved">> >>)

\* lines 160-166: the training path
TrainPath(flags, train, valid, featuresCol, evalOuts, saveOk) ==
  IF "--train" \notin flags THEN Returned(<<>>)
  ELSE Then(<< <<"INFO", "Starting model training...">> >>,
            SaveBest(evaluate_models(train, valid, featuresCol, evalOuts), saveOk))

\* lines 169-171: download_directory_from_s3 returns whatever happens inside
\* it; PipelineModel.load returns or raises
LoadBest(loadOk) ==
  IF ~loadOk
  THEN Raised(<< <<"INFO", "Downloading the best model from S3...">>,
                 <<"download_directory_from_s3", "bestmodel/">>,
                 <<"PipelineModel.load", "/home/hadoop/bestmodel">> >>)
  ELSE Returned(<< <<"INFO", "Downloading the best model from S3...">>,
                   <<"download_directory_from_s3", "bestmodel/">>,
                   <<"PipelineModel.load", "/home/hadoop/bestmodel">>,
                   <<"INFO", "Best model loaded. Making predictions...">> >>)

\* lines 168-173: the prediction path, predicted being what predict_new_data
\* does with the loaded model
PredictPath(flags, loadOk, predicted) ==
  IF "--predict" \notin flags THEN Returned(<<>>)
  ELSE IF ~loadOk THEN LoadBest(loadOk)
  ELSE Then(LoadBest(loadOk).events, predicted)

\* line 175 after the two paths t and pr: spark.stop() unless one raised; the
\* prediction path is not entered when the training path raised
StopSession(t, pr) ==
  IF t.raised THEN [events |-> t.events, pc |-> "crashed", spark |-> "open"]
  ELSE IF pr.raised
  THEN [events |-> t.events \o pr.events, pc |-> "crashed", spark |-> "open"]
  ELSE [events |-> t.events \o pr.events \o << <<"spark.stop", "">> >>,
        pc |-> "exited", spark |-> "stopped"]

\* lines 156-158: cat_cols + num_cols without the label
FeaturesCol(g) == (g.cat_cols \cup Range(g.num_cols)) \ {label_col}

\* the script's state after lines 156-175 did r
SetRun(r) ==
  /\ m_pc' = r.pc
  /\ spark' = r.spark
  /\ m_events' = Append(m_events, <<"grab_col_names", "returned">>) \o r.events

\* the engine's outcomes when predict_new_data returns before asking it
EngineUnasked ==
  [transformOk |-> TRUE, showOk |-> TRUE, metricOk |-> [i \in DOMAIN Metrics |-> TRUE]]

\* lines 172-175 for the value f that the fetch of line 116 returned: the
\* engine's outcomes are drawn only when predict_new_data goes on to ask it
AfterFetchNew(t, f) ==
  \E o \in (IF IsNone(f.value) THEN {EngineUnasked} ELSE PredictOutcomes) :
    SetRun(StopSession(t, PredictPath(argv, TRUE, PredictFetched(f, SomeModel, o))))

\* lines 171-175 for what PipelineModel.load did: the reply of the object store
\* is drawn only when predict_new_data is called
AfterLoad(t, loadOk) ==
  IF ~loadOk THEN SetRun(StopSession(t, PredictPath(argv, FALSE, Returned(<<>>))))
  ELSE \E testReply \in S3Replies(MaxRunLen), createOk \in BOOLEAN :
         AfterFetchNew(t, fetch_dataframe_from_s3(testReply.s3, testReply.text,
                                                  createOk, "data_transformations"))

\* lines 168-175 after the training path did t: the prediction path is entered
\* when t returned and --predict is given
AfterTrain(t) ==
  IF t.raised \/ "--predict" \notin argv
  THEN SetRun(StopSession(t, Returned(<<>>)))
  ELSE \E loadOk \in BOOLEAN : AfterLoad(t, loadOk)

\* the script's state after the fetch f of line 152, of line 153
SetTraining(f) ==
  train_df' = f.value /\ m_events' = m_events \o FetchEvents("TrainingDataset.csv", f)
SetValidation(f) ==
  valid_df' = f.value /\ m_events' = m_events \o FetchEvents("ValidationDataset.csv", f)

\* lines 160-175 for the first family's outcome e1: the second family's
\* outcome and that of save are drawn only when the loop gets there
AfterFirstFamily(g, e1) ==
  IF EvalIteration(EvalStart, train_df, valid_df, get_decision_tree_params[1],
                   e1).pc = "raised"
  THEN AfterTrain(TrainPath(argv, train_df, valid_df, FeaturesCol(g), <<e1>>, FALSE))
  ELSE \E e2 \in Outcomes(get_decision_tree_params[2]), saveOk \in BOOLEAN :
         AfterTrain(TrainPath(argv, train_df, valid_df, FeaturesCol(g), <<e1, e2>>,
                              saveOk))

\* lines 154-175 for what grab_col_names(train_df) did; the outcomes of the
\* training path are drawn only when the path is entered
RunFrom(g) ==
  IF g.raised
  THEN /\ m_pc' = "crashed"
       /\ m_events' = Append(m_events, <<"grab_col_names", "raised">>)
       /\ UNCHANGED spark
  ELSE IF "--train" \notin argv THEN AfterTrain(Returned(<<>>))
  ELSE \E e1 \in Outcomes(get_decision_tree_params[1]) : AfterFirstFamily(g, e1)

MainInit ==
  /\ argv \in SUBSET Flags /\ m_pc = "start" /\ spark = "none"
  /\ train_df = Pending /\ valid_df = Pending /\ m_events = <<>>
  /\ FetchIdle /\ GrabIdle /\ DownloadIdle /\ EvalIdle /\ PredictIdle

\* lines 144-150: the session is created and configured
OpenSession ==
  /\ m_pc = "start"
  /\ spark' = "open" /\ m_pc' = "fetch_train"
  /\ m_events' = Append(m_events, <<"getOrCreate", "">>)
  /\ UNCHANGED <<argv, train_df, valid_df>>
  /\ UNCHANGED <<fetchVars, grabVars, downloadVars, evalVars, predictVars>>

\* line 152
FetchTraining ==
  /\ m_pc = "fetch_train"
  /\ \E r \in S3Replies(MaxRunLen), c \in BOOLEAN :
       SetTraining(fetch_dataframe_from_s3(r.s3, r.text, c, "data_transformations"))
  /\ m_pc' = "fetch_valid"
  /\ UNCHANGED <<argv, spark, valid_df>>
  /\ UNCHANGED <<fetchVars, grabVars, downloadVars, evalVars, predictVars>>

\* line 153
FetchValidation ==
  /\ m_pc = "fetch_valid"
  /\ \E r \in S3Replies(MaxRunLen), c \in BOOLEAN :
       SetValidation(fetch_dataframe_from_s3(r.s3, r.text, c, "data_transformations"))
  /\ m_pc' = "classify"
  /\ UNCHANGED <<argv, spark, train_df>>
  /\ UNCHANGED <<fetchVars, grabVars, downloadVars, evalVars, predictVars>>

\* lines 154-175: grab_col_names(train_df) raises on a missing table and the
\* script ends there, the traceback printed; otherwise the rest of the script
\* runs to spark.stop() or to the first call that raises
ClassifyAndRun ==
  /\ m_pc = "classify"
  /\ \E style \in ReprStyles :
       RunFrom(grab_col_names(train_df, default_cat_th, default_car_th, style))
  /\ UNCHANGED <<argv, train_df, valid_df>>
  /\ UNCHANGED <<fetchVars, grabVars, downloadVars, evalVars, predictVars>>

MainNext == OpenSession \/ FetchTraining \/ FetchValidation \/ ClassifyAndRun
Spec == MainInit /\ [][MainNext]_vars

Terminated == m_pc \in {"exited", "crashed"}

\* C1: whatever the flags and the outcomes of the external calls, a run that
\* opened the session has called spark.stop() when the process exits.
C1_SessionAlwaysStopped ==
  (Terminated /\ "getOrCreate" \in EventKinds(m_events)) => spark = "stopped"

\* C3: with --train given and a missing training or validation table, the run
\* ends with an error before any cv.fit is started and before anything is
\* persisted, and never logs the 'Best model saved' line.
C3_TrainFailsFast ==
  (/\ "--train" \in argv
   /\ m_pc \in {"classify", "exited", "crashed"}
   /\ (IsNone(train_df) \/ IsNone(valid_df))) =>
    /\ EventKinds(m_events) \cap {"cv.fit", "save"} = {}
    /\ <<"INFO", "Best model saved">> \notin Range(m_events)
    /\ Terminated => m_pc = "crashed"

\* a training run whose tables are missing, ended by the error
C3_Witness ==
  /\ "--train" \in argv /\ m_pc = "crashed"
  /\ IsNone(train_df) /\ IsNone(valid_df)
  /\ Last(m_events) = <<"grab_col_names", "raised">>

\* C8: with neither flag, the run only opens and closes the session: no
\* object-storage access, no schema classification, no fitting, persist,
\* download, load or prediction.
C8_NoFlagsOnlyOpenAndClose ==
  (Terminated /\ argv = {}) =>
    /\ m_events = << <<"getOrCreate", "">>, <<"spark.stop", "">> >>
    /\ spark = "stopped"

====
